---- MODULE Spec2Model ----
(***************************************************************************)
(* The two build scripts of the flipbook repository as one state machine. *)
(* A behaviour is one invocation of one script:                            *)
(*   script = "images"      build-images.js     (local image-optimizer)    *)
(*   script = "cloudflare"  build-cloudflare.js (packaging pipeline),      *)
(*                          optionally followed by a second invocation on  *)
(*                          the same, unchanged source.                    *)
(* The file system is a set of directories and a map from paths to         *)
(* contents; the environment (directory listings, the availability of the  *)
(* conversion capability, the outcome of every conversion and copy) is     *)
(* chosen nondeterministically.                                            *)
(***************************************************************************)
EXTENDS Naturals, Sequences, FiniteSets

VARIABLES
  script,        \* which script this invocation runs
  pc,            \* position in the script
  exitCode,      \* status the process exits with: 0 unless process.exit(1) ran
  errLog,        \* number of uncaught errors written by console.error at top level
  srcDirExists,  \* the directory of source images exists
  capability,    \* `convert -version` succeeds / require('sharp') succeeds
  dirEntries,    \* fs.readdirSync of the directory of source images
  htmlPresent,   \* flipbook-v2/index.html exists
  htmlSrc,       \* bytes of flipbook-v2/index.html
  imageFiles,    \* the filtered listing
  fi,            \* index of the current file in imageFiles
  ci,            \* index of the current preset in the configs table
  results,       \* the in-memory manifest of build-images.js
  manifest,      \* content of image-manifest.json on disk
  manifestWrites,\* number of times image-manifest.json was written
  dirs,          \* directories of the output tree
  made,          \* directories created by fs.mkdirSync in this invocation
  files,         \* files of the output tree: path -> content
  useSharp,      \* buildForCloudflare's flag
  run,           \* 1 for the first invocation, 2 for the repeated one
  snapshot,      \* files of dist when the first invocation completed
  completed1,    \* the first invocation ran to "Build complete!"
  outcomes,      \* conversion/copy outcomes of the first invocation, in order
  attempts,      \* (file, preset) pairs handed to the converter, in order
  writeLog       \* every variant file written: [path, file, preset]

vars == << script, pc, exitCode, errLog, srcDirExists, capability, dirEntries,
           htmlPresent, htmlSrc, imageFiles, fi, ci, results, manifest,
           manifestWrites, dirs, made, files, useSharp, run, snapshot,
           completed1, outcomes, attempts, writeLog >>

----------------------------------------------------------------------------
(* Bounds of the exploration *)

\* longest index.html, in tokens
MaxHtmlLen == 3

----------------------------------------------------------------------------
(* Values *)

EmptyFn == [x \in {} |-> 0]

Put(fn, k, v) == [x \in (DOMAIN fn) \cup {k} |-> IF x = k THEN v ELSE fn[x]]

File(n, e) == [name |-> n, ext |-> e]

NoFile == File("", "")

\* Directory entries a source directory may hold.  a.jpg and a.PNG share a
\* basename; a-mobile.jpg is named like the mobile JPEG variant of a.jpg;
\* n.txt is not an image.
ImagesDirNames == { File("a", "jpg"), File("a", "PNG"), File("n", "txt") }

PagesDirNames == { File("a", "jpg"), File("a-mobile", "jpg"), File("n", "txt") }

\* every order of every subset: readdirSync promises no order
Listings(S) ==
  { s \in UNION { [1..n -> S] : n \in 0..Cardinality(S) } :
      \A i, j \in DOMAIN s : i # j => s[i] # s[j] }

----------------------------------------------------------------------------
(* build-images.js *)

configsImages ==
  << [name |-> "mobile",    width |-> 800,  quality |-> 75, suffix |-> "-mobile"],
     [name |-> "tablet",    width |-> 1200, quality |-> 80, suffix |-> "-tablet"],
     [name |-> "desktop",   width |-> 1920, quality |-> 85, suffix |-> "-desktop"],
     [name |-> "thumbnail", width |-> 300,  quality |-> 70, suffix |-> "-thumb"] >>

\* String.prototype.toLowerCase on the extensions that occur
Lower(e) == CASE e = "PNG" -> "png"
              [] e = "JPG" -> "jpg"
              [] e = "JPEG" -> "jpeg"
              [] OTHER -> e

\* /\.(jpg|jpeg|png)$/i.test(file)
IsImage(f) == Lower(f.ext) \in {"jpg", "jpeg", "png"}

\* Array.prototype.filter with the extension test
RECURSIVE FilterImages(_)
FilterImages(s) ==
  IF s = << >> THEN << >>
  ELSE IF IsImage(Head(s)) THEN << Head(s) >> \o FilterImages(Tail(s))
       ELSE FilterImages(Tail(s))

\* path.parse(filename).name
nameWithoutExt(f) == f.name

\* variant of OutPath that leaves the suffix out of the file name
OutPathNoSuffix(outputDir, f, config, ext) ==
  [dir |-> outputDir, name |-> nameWithoutExt(f), ext |-> ext]

\* path.join(outputDir, `${nameWithoutExt}${config.suffix}.<ext>`)
OutPath(outputDir, f, config, ext) ==
  [dir |-> outputDir, name |-> nameWithoutExt(f) \o config.suffix, ext |-> ext]

Content(kind, f, preset, bytes) ==
  [kind |-> kind, of |-> f, preset |-> preset, bytes |-> bytes]

Variant(kind, f, config) == Content(kind, f, config.name, << >>)

\* outcome of one conversion of a (file, preset) pair by the external tool:
\* both commands succeed, the first throws, or the second throws
ConvOutcomes == {"ok", "failWebp", "failJpeg"}

\* the files optimizeImage leaves behind
OptimizeImageFiles(fs, outputDir, f, config, o) ==
  LET withWebp == Put(fs, OutPath(outputDir, f, config, "webp"),
                      Variant("webp", f, config))
      withJpeg == Put(withWebp, OutPath(outputDir, f, config, "jpg"),
                      Variant("jpeg", f, config))
  IN CASE o = "ok"       -> withJpeg
       [] o = "failJpeg" -> withWebp
       [] OTHER          -> fs

\* the writes optimizeImage performs
OptimizeWrites(outputDir, f, config, o) ==
  LET w(ext) == [path |-> OutPath(outputDir, f, config, ext), file |-> f,
                 preset |-> config.name]
  IN CASE o = "ok"       -> { w("webp"), w("jpg") }
       [] o = "failJpeg" -> { w("webp") }
       [] OTHER          -> {}

NoPath == [dir |-> "", name |-> "", ext |-> ""]

\* the null optimizeImage returns from its catch block
Null == [webp |-> NoPath, jpeg |-> NoPath]

\* the value optimizeImage returns
optimizeImage(outputDir, f, config, o) ==
  IF o = "ok"
  THEN [webp |-> OutPath(outputDir, f, config, "webp"),
        jpeg |-> OutPath(outputDir, f, config, "jpg")]
  ELSE Null

ImagesVars == << htmlPresent, htmlSrc, useSharp, run, snapshot, completed1,
                 outcomes >>

\* main execution: process.exit(1) when sourceDir does not exist
MainImages ==
  /\ script = "images" /\ pc = "main"
  /\ IF srcDirExists
     THEN pc' = "probe" /\ UNCHANGED exitCode
     ELSE pc' = "exited" /\ exitCode' = 1
  /\ UNCHANGED << script, errLog, srcDirExists, capability, dirEntries,
                  imageFiles, fi, ci, results, manifest, manifestWrites, dirs,
                  made, files, attempts, writeLog, ImagesVars >>

\* variant of the probe step without process.exit(1)
checkImageMagickNoExit ==
  /\ script = "images" /\ pc = "probe"
  /\ pc' = "mkdirs"
  /\ UNCHANGED << script, exitCode, errLog, srcDirExists, capability,
                  dirEntries, imageFiles, fi, ci, results, manifest,
                  manifestWrites, dirs, made, files, attempts, writeLog,
                  ImagesVars >>

\* createOptimizedImages: if (!checkImageMagick()) process.exit(1)
checkImageMagick ==
  /\ script = "images" /\ pc = "probe"
  /\ IF capability
     THEN pc' = "mkdirs" /\ UNCHANGED exitCode
     ELSE pc' = "exited" /\ exitCode' = 1
  /\ UNCHANGED << script, errLog, srcDirExists, capability, dirEntries,
                  imageFiles, fi, ci, results, manifest, manifestWrites, dirs,
                  made, files, attempts, writeLog, ImagesVars >>

PresetDirs == { configsImages[i].name : i \in DOMAIN configsImages }

\* createOptimizedImages: create one output directory per preset, if absent
CreateOutputDirs ==
  /\ script = "images" /\ pc = "mkdirs"
  /\ made' = made \cup (PresetDirs \ dirs)
  /\ dirs' = dirs \cup PresetDirs
  /\ pc' = "readdir"
  /\ UNCHANGED << script, exitCode, errLog, srcDirExists, capability,
                  dirEntries, imageFiles, fi, ci, results, manifest,
                  manifestWrites, files, attempts, writeLog, ImagesVars >>

\* createOptimizedImages: enumerate the image files, start with empty results
ReadSourceDir ==
  /\ script = "images" /\ pc = "readdir"
  /\ imageFiles' = FilterImages(dirEntries)
  /\ fi' = 1 /\ ci' = 1
  /\ results' = EmptyFn
  /\ pc' = "file"
  /\ UNCHANGED << script, exitCode, errLog, srcDirExists, capability,
                  dirEntries, manifest, manifestWrites, dirs, made, files,
                  attempts, writeLog, ImagesVars >>

\* head of the imageFiles.forEach body: results[filename] = {}
StartFile ==
  /\ script = "images" /\ pc = "file" /\ fi <= Len(imageFiles)
  /\ results' = Put(results, imageFiles[fi], EmptyFn)
  /\ ci' = 1
  /\ pc' = "preset"
  /\ UNCHANGED << script, exitCode, errLog, srcDirExists, capability,
                  dirEntries, imageFiles, fi, manifest, manifestWrites, dirs,
                  made, files, attempts, writeLog, ImagesVars >>

\* variant of Record without the `if (result)` test
RecordAlways(res, f, config, result) ==
  Put(res, f, Put(res[f], config.name, result))

\* results[filename][configName] = result, when result is not null
Record(res, f, config, result) ==
  IF result # Null THEN Put(res, f, Put(res[f], config.name, result)) ELSE res

\* variant of OptimizeOne without the try/catch of optimizeImage: a failed
\* conversion ends the process
OptimizeOneUncaught ==
  /\ script = "images" /\ pc = "preset"
  /\ \E o \in ConvOutcomes :
       LET f      == imageFiles[fi]
           config == configsImages[ci]
           outDir == config.name
       IN /\ files' = OptimizeImageFiles(files, outDir, f, config, o)
          /\ writeLog' = writeLog \cup OptimizeWrites(outDir, f, config, o)
          /\ results' = Record(results, f, config, optimizeImage(outDir, f, config, o))
          /\ attempts' = Append(attempts, << f, config.name >>)
          /\ outcomes' = Append(outcomes, o)
          /\ IF o # "ok"
             THEN pc' = "exited" /\ exitCode' = 1 /\ UNCHANGED << fi, ci >>
             ELSE /\ UNCHANGED exitCode
                  /\ IF ci < Len(configsImages)
                     THEN ci' = ci + 1 /\ UNCHANGED << fi, pc >>
                     ELSE ci' = 1 /\ fi' = fi + 1 /\ pc' = "file"
  /\ UNCHANGED << script, errLog, srcDirExists, capability,
                  dirEntries, imageFiles, manifest, manifestWrites, dirs, made,
                  htmlPresent, htmlSrc, useSharp, run, snapshot, completed1 >>

\* one iteration of Object.entries(configs).forEach: optimizeImage for the
\* pair; a failed conversion is caught inside optimizeImage
OptimizeOne ==
  /\ script = "images" /\ pc = "preset"
  /\ \E o \in ConvOutcomes :
       LET f      == imageFiles[fi]
           config == configsImages[ci]
           outDir == config.name
       IN /\ files' = OptimizeImageFiles(files, outDir, f, config, o)
          /\ writeLog' = writeLog \cup OptimizeWrites(outDir, f, config, o)
          /\ results' = Record(results, f, config, optimizeImage(outDir, f, config, o))
          /\ attempts' = Append(attempts, << f, config.name >>)
          /\ outcomes' = Append(outcomes, o)
  /\ IF ci < Len(configsImages)
     THEN ci' = ci + 1 /\ UNCHANGED << fi, pc >>
     ELSE ci' = 1 /\ fi' = fi + 1 /\ pc' = "file"
  /\ UNCHANGED << script, exitCode, errLog, srcDirExists, capability,
                  dirEntries, imageFiles, manifest, manifestWrites, dirs, made,
                  htmlPresent, htmlSrc, useSharp, run, snapshot, completed1 >>

\* fs.writeFileSync(manifestPath, JSON.stringify(results, null, 2))
WriteManifest ==
  /\ script = "images" /\ pc = "file" /\ fi > Len(imageFiles)
  /\ manifest' = results
  /\ manifestWrites' = manifestWrites + 1
  /\ pc' = "sizes"
  /\ UNCHANGED << script, exitCode, errLog, srcDirExists, capability,
                  dirEntries, imageFiles, fi, ci, results, dirs, made, files,
                  attempts, writeLog, ImagesVars >>

\* showSizeComparison only reads and prints; the script then ends normally
showSizeComparison ==
  /\ script = "images" /\ pc = "sizes"
  /\ pc' = "exited"
  /\ UNCHANGED << script, exitCode, errLog, srcDirExists, capability, dirEntries,
                  imageFiles, fi, ci, results, manifest, manifestWrites, dirs,
                  made, files, attempts, writeLog, ImagesVars >>

NextImages ==
  \/ MainImages
  \/ checkImageMagick
  \/ CreateOutputDirs
  \/ ReadSourceDir
  \/ StartFile
  \/ OptimizeOne
  \/ WriteManifest
  \/ showSizeComparison

InitImages ==
  /\ script = "images"
  /\ pc = "main"
  /\ srcDirExists \in BOOLEAN
  /\ capability \in BOOLEAN
  /\ dirEntries \in (IF srcDirExists THEN Listings(ImagesDirNames) ELSE { << >> })
  /\ dirs \in { {}, PresetDirs }
  /\ files = EmptyFn
  /\ htmlPresent = FALSE /\ htmlSrc = << >>
  /\ useSharp = FALSE

InitCommon ==
  /\ exitCode = 0
  /\ errLog = 0
  /\ imageFiles = << >>
  /\ fi = 1 /\ ci = 1
  /\ results = EmptyFn
  /\ manifest = EmptyFn
  /\ manifestWrites = 0
  /\ made = {}
  /\ run = 1
  /\ snapshot = EmptyFn
  /\ completed1 = FALSE
  /\ outcomes = << >>
  /\ attempts = << >>
  /\ writeLog = {}

----------------------------------------------------------------------------
(* build-cloudflare.js *)

configsCloudflare ==
  << [name |-> "mobile",  width |-> 800,  quality |-> 75, suffix |-> "-mobile"],
     [name |-> "tablet",  width |-> 1200, quality |-> 80, suffix |-> "-tablet"],
     [name |-> "desktop", width |-> 1920, quality |-> 85, suffix |-> "-desktop"] >>

\* buildDir and optimizedDir
buildDir == "dist"

optimizedDir == "pages"

IndexPath == [dir |-> buildDir, name |-> "index", ext |-> "html"]

HeadersPath == [dir |-> buildDir, name |-> "_headers", ext |-> ""]

\* path.join(optimizedDir, filename)
FallbackPath(f) == [dir |-> optimizedDir, name |-> f.name, ext |-> f.ext]

Copy(f) == Content("copy", f, "", << >>)

headersContent == Content("headers", NoFile, "", << >>)

\* content left in dist by something other than this build
Stale == Content("stale", NoFile, "", << >>)

StaleFiles ==
  [p \in { IndexPath,
           [dir |-> buildDir, name |-> "old", ext |-> "txt"],
           [dir |-> optimizedDir, name |-> "a", ext |-> "jpg"],
           [dir |-> optimizedDir, name |-> "z-tablet", ext |-> "webp"] } |-> Stale]

\* index.html is a sequence of tokens: "T" any well-formed text, "F" the
\* literal slide.innerHTML <img> statement, "B" a byte that is not valid
\* UTF-8, "U" the encoding of U+FFFD, "P" the <picture> statement.
HtmlAlphabet == {"T", "F", "B"}

HtmlInputs(n) == UNION { [1..k -> HtmlAlphabet] : k \in 0..n }

HtmlSamples == { << "T", "F", "T" >>, << "T" >> }

\* fs.readFileSync(htmlPath, 'utf8'): an invalid byte decodes to U+FFFD
Utf8Decode(bytes) == [i \in DOMAIN bytes |-> IF bytes[i] = "B" THEN "U" ELSE bytes[i]]

\* fs.writeFileSync(htmlPath, html): every character is encoded as UTF-8
Utf8Encode(html) == [i \in DOMAIN html |-> html[i]]

\* html.replace(/.../, `...`): a regular expression without the g flag
\* replaces the first match only
ReplaceFragment(html) ==
  IF \E i \in DOMAIN html : html[i] = "F"
  THEN LET first == CHOOSE i \in DOMAIN html :
                      /\ html[i] = "F"
                      /\ \A j \in DOMAIN html : html[j] = "F" => i <= j
       IN [html EXCEPT ![first] = "P"]
  ELSE html

\* the six candidates of the replacement, in the order of the template
PictureSources ==
  << [suffix |-> "-mobile",  ext |-> "webp"],
     [suffix |-> "-tablet",  ext |-> "webp"],
     [suffix |-> "-desktop", ext |-> "webp"],
     [suffix |-> "-mobile",  ext |-> "jpg"],
     [suffix |-> "-tablet",  ext |-> "jpg"],
     [suffix |-> "-desktop", ext |-> "jpg"] >>

\* what updateHtmlForOptimizedImages writes back
UpdatedHtml(bytes, useOptimized) ==
  LET html == Utf8Decode(bytes)
  IN Utf8Encode(IF useOptimized THEN ReplaceFragment(html) ELSE html)

\* outcome of optimizeWithSharp for one (file, preset) pair: both encodings
\* succeed; the WebP or the JPEG encoding throws and the fallback copy
\* succeeds; or the fallback copy throws as well
SharpOutcomes == {"ok", "failWebp", "failJpeg", "failWebpCopy", "failJpegCopy"}

SharpThrows(o) == o \in {"failWebpCopy", "failJpegCopy"}

CopyOutcomes == {"ok", "fail"}

\* the files optimizeWithSharp leaves behind
OptimizeWithSharpFiles(fs, f, config, o) ==
  LET withWebp == Put(fs, OutPath(optimizedDir, f, config, "webp"),
                      Variant("webp", f, config))
      withJpeg == Put(withWebp, OutPath(optimizedDir, f, config, "jpg"),
                      Variant("jpeg", f, config))
  IN CASE o = "ok"           -> withJpeg
       [] o = "failWebp"     -> Put(fs, FallbackPath(f), Copy(f))
       [] o = "failJpeg"     -> Put(withWebp, FallbackPath(f), Copy(f))
       [] o = "failJpegCopy" -> withWebp
       [] OTHER              -> fs

\* the variant files optimizeWithSharp writes
SharpWrites(f, config, o) ==
  LET w(ext) == [path |-> OutPath(optimizedDir, f, config, ext), file |-> f,
                 preset |-> config.name]
  IN CASE o = "ok"                           -> { w("webp"), w("jpg") }
       [] o \in {"failJpeg", "failJpegCopy"} -> { w("webp") }
       [] OTHER                              -> {}

CloudflareVars == << results, manifest, manifestWrites >>

\* variant of CleanBuildDir without fs.rmSync
CleanBuildDirKeep ==
  /\ script = "cloudflare" /\ pc = "clean"
  /\ dirs' = dirs \cup {buildDir}
  /\ made' = made \cup ({buildDir} \ dirs)
  /\ pc' = "copyIndex"
  /\ UNCHANGED << script, exitCode, errLog, srcDirExists, capability,
                  dirEntries, htmlPresent, htmlSrc, imageFiles, fi, ci, files,
                  useSharp, run, snapshot, completed1, outcomes, attempts,
                  writeLog, results, manifest, manifestWrites >>

\* buildForCloudflare: remove ./dist if it exists, then create it
CleanBuildDir ==
  /\ script = "cloudflare" /\ pc = "clean"
  /\ files' = (IF buildDir \in dirs THEN EmptyFn ELSE files)
  /\ dirs' = {buildDir}
  /\ made' = made \cup {buildDir}
  /\ pc' = "copyIndex"
  /\ UNCHANGED << script, exitCode, errLog, srcDirExists, capability,
                  dirEntries, htmlPresent, htmlSrc, imageFiles, fi, ci,
                  useSharp, run, snapshot, completed1, outcomes, attempts,
                  writeLog, CloudflareVars >>

\* fs.copyFileSync(index.html); throws when the source file is missing
CopyIndexHtml ==
  /\ script = "cloudflare" /\ pc = "copyIndex"
  /\ IF htmlPresent
     THEN /\ files' = Put(files, IndexPath, Content("html", NoFile, "", htmlSrc))
          /\ pc' = "mkPages"
     ELSE /\ pc' = "rejected"
          /\ UNCHANGED files
  /\ UNCHANGED << script, exitCode, errLog, srcDirExists, capability,
                  dirEntries, htmlPresent, htmlSrc, imageFiles, fi, ci, dirs,
                  made, useSharp, run, snapshot, completed1, outcomes,
                  attempts, writeLog, CloudflareVars >>

\* fs.mkdirSync(optimizedDir, { recursive: true })
CreatePagesDir ==
  /\ script = "cloudflare" /\ pc = "mkPages"
  /\ made' = made \cup ({optimizedDir} \ dirs)
  /\ dirs' = dirs \cup {optimizedDir}
  /\ pc' = "probeSharp"
  /\ UNCHANGED << script, exitCode, errLog, srcDirExists, capability,
                  dirEntries, htmlPresent, htmlSrc, imageFiles, fi, ci, files,
                  useSharp, run, snapshot, completed1, outcomes, attempts,
                  writeLog, CloudflareVars >>

\* try { require('sharp'); useSharp = true } catch { }
ProbeSharp ==
  /\ script = "cloudflare" /\ pc = "probeSharp"
  /\ useSharp' = capability
  /\ pc' = "readPages"
  /\ UNCHANGED << script, exitCode, errLog, srcDirExists, capability,
                  dirEntries, htmlPresent, htmlSrc, imageFiles, fi, ci, dirs,
                  made, files, run, snapshot, completed1, outcomes, attempts,
                  writeLog, CloudflareVars >>

\* where the image loop goes for a listing
LoopPc(list, sharp) ==
  IF list = << >> THEN "updateHtml" ELSE IF sharp THEN "optimize" ELSE "copy"

\* fs.readdirSync(pagesDir).filter(...); throws when the directory is missing
ReadPagesDir ==
  /\ script = "cloudflare" /\ pc = "readPages"
  /\ IF srcDirExists
     THEN /\ imageFiles' = FilterImages(dirEntries)
          /\ pc' = LoopPc(imageFiles', useSharp)
     ELSE /\ pc' = "rejected"
          /\ UNCHANGED imageFiles
  /\ fi' = 1 /\ ci' = 1
  /\ UNCHANGED << script, exitCode, errLog, srcDirExists, capability,
                  dirEntries, htmlPresent, htmlSrc, dirs, made, files,
                  useSharp, run, snapshot, completed1, outcomes, attempts,
                  writeLog, CloudflareVars >>

\* the environment's answer to the k-th conversion or copy; the repeated
\* invocation gets the answers of the first
Answers(k, all) == IF run = 1 THEN all ELSE { outcomes[k] }

Remember(o) == IF run = 1 THEN Append(outcomes, o) ELSE outcomes

\* one await optimizeWithSharp(inputPath, optimizedDir, filename, config)
optimizeWithSharp ==
  /\ script = "cloudflare" /\ pc = "optimize"
  /\ \E o \in Answers((fi - 1) * Len(configsCloudflare) + ci, SharpOutcomes) :
       LET f      == imageFiles[fi]
           config == configsCloudflare[ci]
       IN /\ files' = OptimizeWithSharpFiles(files, f, config, o)
          /\ writeLog' = writeLog \cup SharpWrites(f, config, o)
          /\ attempts' = Append(attempts, << f, config.name >>)
          /\ outcomes' = Remember(o)
          /\ IF SharpThrows(o)
             THEN pc' = "rejected" /\ UNCHANGED << fi, ci >>
             ELSE IF ci < Len(configsCloudflare)
             THEN ci' = ci + 1 /\ UNCHANGED << fi, pc >>
             ELSE /\ ci' = 1 /\ fi' = fi + 1
                  /\ pc' = IF fi < Len(imageFiles) THEN "optimize" ELSE "updateHtml"
  /\ UNCHANGED << script, exitCode, errLog, srcDirExists, capability,
                  dirEntries, htmlPresent, htmlSrc, imageFiles, dirs, made,
                  useSharp, run, snapshot, completed1, CloudflareVars >>

\* one iteration of the fallback imageFiles.forEach: fs.copyFileSync
CopyOriginal ==
  /\ script = "cloudflare" /\ pc = "copy"
  /\ \E o \in Answers(fi, CopyOutcomes) :
       LET f == imageFiles[fi]
       IN /\ outcomes' = Remember(o)
          /\ IF o = "ok"
             THEN /\ files' = Put(files, FallbackPath(f), Copy(f))
                  /\ fi' = fi + 1
                  /\ pc' = IF fi < Len(imageFiles) THEN "copy" ELSE "updateHtml"
             ELSE /\ pc' = "rejected"
                  /\ UNCHANGED << files, fi >>
  /\ UNCHANGED << script, exitCode, errLog, srcDirExists, capability,
                  dirEntries, htmlPresent, htmlSrc, imageFiles, ci, dirs, made,
                  useSharp, run, snapshot, completed1, attempts, writeLog,
                  CloudflareVars >>

\* updateHtmlForOptimizedImages(buildDir, useSharp)
updateHtmlForOptimizedImages ==
  /\ script = "cloudflare" /\ pc = "updateHtml"
  /\ files' = Put(files, IndexPath,
                  Content("html", NoFile, "",
                          UpdatedHtml(files[IndexPath].bytes, useSharp)))
  /\ pc' = "headers"
  /\ UNCHANGED << script, exitCode, errLog, srcDirExists, capability,
                  dirEntries, htmlPresent, htmlSrc, imageFiles, fi, ci, dirs,
                  made, useSharp, run, snapshot, completed1, outcomes,
                  attempts, writeLog, CloudflareVars >>

\* createHeadersFile(buildDir); buildForCloudflare then returns
createHeadersFile ==
  /\ script = "cloudflare" /\ pc = "headers"
  /\ files' = Put(files, HeadersPath, headersContent)
  /\ pc' = "resolved"
  /\ UNCHANGED << script, exitCode, errLog, srcDirExists, capability,
                  dirEntries, htmlPresent, htmlSrc, imageFiles, fi, ci, dirs,
                  made, useSharp, run, snapshot, completed1, outcomes,
                  attempts, writeLog, CloudflareVars >>

\* the promise resolved: nothing is left to run and the process ends normally
Resolved ==
  /\ script = "cloudflare" /\ pc = "resolved"
  /\ pc' = "exited"
  /\ IF run = 1
     THEN snapshot' = files /\ completed1' = TRUE
     ELSE UNCHANGED << snapshot, completed1 >>
  /\ UNCHANGED << script, exitCode, errLog, srcDirExists, capability, dirEntries,
                  htmlPresent, htmlSrc, imageFiles, fi, ci, dirs, made, files,
                  useSharp, run, outcomes, attempts, writeLog, CloudflareVars >>

\* buildForCloudflare().catch(console.error): the rejection is handled by
\* printing it; nothing sets an exit status and the process ends normally
CatchConsoleError ==
  /\ script = "cloudflare" /\ pc = "rejected"
  /\ errLog' = errLog + 1
  /\ pc' = "exited"
  /\ UNCHANGED << script, exitCode, srcDirExists, capability, dirEntries, htmlPresent,
                  htmlSrc, imageFiles, fi, ci, dirs, made, files, useSharp,
                  run, snapshot, completed1, outcomes, attempts, writeLog,
                  CloudflareVars >>

\* the script is invoked again on the unchanged source
Rerun ==
  /\ script = "cloudflare" /\ pc = "exited" /\ run = 1
  /\ run' = 2
  /\ pc' = "clean"
  /\ exitCode' = 0
  /\ errLog' = 0
  /\ imageFiles' = << >>
  /\ fi' = 1 /\ ci' = 1
  /\ made' = {}
  /\ useSharp' = FALSE
  /\ attempts' = << >>
  /\ writeLog' = {}
  /\ UNCHANGED << script, srcDirExists, capability, dirEntries, htmlPresent,
                  htmlSrc, dirs, files, snapshot, completed1, outcomes,
                  CloudflareVars >>

NextCloudflare ==
  \/ CleanBuildDir
  \/ CopyIndexHtml
  \/ CreatePagesDir
  \/ ProbeSharp
  \/ ReadPagesDir
  \/ optimizeWithSharp
  \/ CopyOriginal
  \/ updateHtmlForOptimizedImages
  \/ createHeadersFile
  \/ Resolved
  \/ CatchConsoleError
  \/ Rerun

\* dist before the build: absent, or left over with foreign content
InitDist ==
  \/ dirs = {} /\ files = EmptyFn
  \/ dirs = {buildDir, optimizedDir} /\ files = StaleFiles

InitCloudflare ==
  /\ script = "cloudflare"
  /\ pc = "clean"
  /\ htmlPresent \in BOOLEAN
  /\ htmlSrc \in (IF htmlPresent THEN HtmlSamples ELSE { << >> })
  /\ srcDirExists \in (IF htmlPresent THEN BOOLEAN ELSE { TRUE })
  /\ capability \in BOOLEAN
  /\ dirEntries \in (IF htmlPresent /\ srcDirExists
                     THEN Listings(PagesDirNames) ELSE { << >> })
  /\ InitDist
  /\ useSharp = FALSE

\* every index.html up to MaxHtmlLen tokens, with at most one page
InitHtml ==
  /\ script = "cloudflare"
  /\ pc = "clean"
  /\ htmlPresent = TRUE
  /\ htmlSrc \in HtmlInputs(MaxHtmlLen)
  /\ srcDirExists = TRUE
  /\ capability \in BOOLEAN
  /\ dirEntries \in { << >>, << File("a", "jpg") >> }
  /\ InitDist
  /\ useSharp = FALSE

----------------------------------------------------------------------------
(* Specifications *)

Init == (InitImages \/ InitCloudflare) /\ InitCommon

Next == NextImages \/ NextCloudflare

Spec == Init /\ [][Next]_vars

InitHtmlRun == InitHtml /\ InitCommon

SpecHtml == InitHtmlRun /\ [][NextCloudflare]_vars

----------------------------------------------------------------------------
(* Properties *)

Range(seq) == { seq[i] : i \in DOMAIN seq }

\* the k-th attempted (file, preset) pair was converted by both encodings
Succeeded(k) == k \in DOMAIN attempts /\ k \in DOMAIN outcomes /\ outcomes[k] = "ok"

\* preset names for which the conversion of f succeeded
SucceededPresets(f) ==
  { attempts[k][2] : k \in { j \in DOMAIN attempts : Succeeded(j) /\ attempts[j][1] = f } }

ManifestWritten == script = "images" /\ manifestWrites > 0

ImagesFinished == script = "images" /\ pc = "exited" /\ exitCode = 0

\* buildForCloudflare ran to its last statement in the current invocation
CloudflareCompleted == script = "cloudflare" /\ pc = "exited" /\ errLog = 0

\* an error left buildForCloudflare uncaught in the current invocation
CloudflareThrew ==
  /\ script = "cloudflare" /\ pc = "exited"
  /\ \/ ~htmlPresent
     \/ ~srcDirExists
     \/ /\ outcomes # << >>
        /\ outcomes[Len(outcomes)] \in {"failWebpCopy", "failJpegCopy", "fail"}

\* C1 (as stated): once image-manifest.json is written, its top-level keys
\* are exactly the source filenames with at least one successful preset
\* conversion, and no key maps to an empty object.
C1_KeysAreFilesWithASuccess ==
  ManifestWritten =>
    /\ DOMAIN manifest = { f \in Range(imageFiles) : SucceededPresets(f) # {} }
    /\ \A f \in DOMAIN manifest : DOMAIN manifest[f] # {}

\* C1 (amended): once image-manifest.json is written, its top-level keys are
\* exactly the enumerated source filenames, each mapped to the entries of
\* the presets whose conversion succeeded; a filename whose conversions all
\* failed is present with an empty object.
C1_KeysAreAllEnumeratedFiles ==
  ManifestWritten =>
    /\ DOMAIN manifest = Range(FilterImages(dirEntries))
    /\ \A f \in DOMAIN manifest : DOMAIN manifest[f] = SucceededPresets(f)

C1_Witness ==
  /\ ManifestWritten
  /\ \E f, g \in DOMAIN manifest :
       /\ SucceededPresets(f) = {} /\ DOMAIN manifest[f] = {}
       /\ SucceededPresets(g) # {}

\* C2 (as stated): when an error leaves buildForCloudflare uncaught, it is
\* logged once at top level and the process ends with a non-zero status.
C2_UncaughtErrorExitsNonZero ==
  CloudflareThrew => (errLog = 1 /\ exitCode # 0)

\* the part of C2 the code does satisfy: the error is logged once and no
\* step is attempted a second time
C2_UncaughtErrorLoggedOnce ==
  CloudflareThrew =>
    /\ errLog = 1
    /\ \A i, j \in DOMAIN attempts : attempts[i] = attempts[j] => i = j

\* dist/index.html as the claim describes it: the source with the first
\* fragment replaced when the optimize path was taken, else the source
ExpectedHtml(src, optimized) ==
  IF optimized /\ \E i \in DOMAIN src : src[i] = "F"
  THEN LET i == CHOOSE i \in DOMAIN src :
                  src[i] = "F" /\ \A j \in 1..(i - 1) : src[j] # "F"
       IN [src EXCEPT ![i] = "P"]
  ELSE src

\* C3 (as stated): after a completed build dist/index.html is the source
\* with its first fragment replaced by the <picture> statement when the
\* capability was available and the fragment is present, and is
\* byte-identical to the source in every other case.
C3_HtmlIdenticalButFirstFragment ==
  CloudflareCompleted =>
    files[IndexPath].bytes = ExpectedHtml(htmlSrc, capability)

\* what holds of the code: the same, provided index.html is valid UTF-8
C3_ValidUtf8HtmlIdenticalButFirstFragment ==
  (CloudflareCompleted /\ "B" \notin Range(htmlSrc)) =>
    files[IndexPath].bytes = ExpectedHtml(htmlSrc, capability)

\* C4: when the repeated invocation completes, dist holds exactly what it
\* held when the first invocation completed, and a completed invocation
\* leaves nothing in dist that it did not write itself.
C4_SecondRunSameAsSingleRun ==
  CloudflareCompleted =>
    /\ \A p \in DOMAIN files : files[p] # Stale
    /\ dirs = {buildDir, optimizedDir}
    /\ run = 2 => (completed1 /\ files = snapshot)

C4_Witness ==
  /\ CloudflareCompleted /\ run = 2
  /\ \E k \in DOMAIN attempts : Succeeded(k)
  /\ \E f \in Range(imageFiles) : FallbackPath(f) \in DOMAIN files

\* the two files the claim names for a pair, under directory d
TwoFiles(d, f, config) ==
  { [dir |-> d, name |-> f.name \o config.suffix, ext |-> "webp"],
    [dir |-> d, name |-> f.name \o config.suffix, ext |-> "jpg"] }

ConfigNamed(n) ==
  CHOOSE c \in Range(configsImages) : c.name = n

PathsWrittenFor(f, n) ==
  { w.path : w \in { x \in writeLog : x.file = f /\ x.preset = n } }

ScriptFinished == ImagesFinished \/ CloudflareCompleted

\* C5 (as stated): when a build finishes, every pair whose conversion
\* succeeded has exactly its WebP and its JPEG file, named
\* <basename><suffix>.webp and .jpg, under the directory named after the
\* preset, and the manifest entry of the pair records those two paths.
C5_TwoFilesUnderPresetDir ==
  ScriptFinished =>
    \A k \in DOMAIN attempts : Succeeded(k) =>
      LET f == attempts[k][1]
          n == attempts[k][2]
          two == TwoFiles(n, f, ConfigNamed(n))
      IN /\ PathsWrittenFor(f, n) = two
         /\ two \subseteq DOMAIN files
         /\ f \in DOMAIN manifest
         /\ n \in DOMAIN manifest[f]
         /\ { manifest[f][n].webp, manifest[f][n].jpeg } = two

\* C5 (amended): the local image-optimizer does as stated; the packaging
\* pipeline writes the two files of a succeeded pair directly into
\* dist/pages, with no directory per preset, and writes no manifest.
C5_TwoFilesPerSucceededPair ==
  ScriptFinished =>
    \A k \in DOMAIN attempts : Succeeded(k) =>
      LET f == attempts[k][1]
          n == attempts[k][2]
          two == TwoFiles(IF script = "images" THEN n ELSE "pages", f, ConfigNamed(n))
      IN /\ PathsWrittenFor(f, n) = two
         /\ two \subseteq DOMAIN files
         /\ IF script = "images"
            THEN /\ f \in DOMAIN manifest
                 /\ n \in DOMAIN manifest[f]
                 /\ manifest[f][n].webp \in two /\ manifest[f][n].webp.ext = "webp"
                 /\ manifest[f][n].jpeg \in two /\ manifest[f][n].jpeg.ext = "jpg"
            ELSE manifestWrites = 0 /\ manifest = EmptyFn

C5_Witness ==
  /\ CloudflareCompleted
  /\ \E k \in DOMAIN attempts : Succeeded(k)
  /\ \E k \in DOMAIN attempts : ~Succeeded(k)

\* C6 (as stated): within one run, no output path is written for two
\* different (source image, preset) pairs.
C6_OnePairPerOutputPath ==
  \A w1, w2 \in writeLog :
    w1.path = w2.path => (w1.file = w2.file /\ w1.preset = w2.preset)

\* C7: when the source directory is missing or the version probe fails, the
\* local image-optimizer gets no further than the probe and ends with
\* status 1, having created no directory, invoked no conversion and
\* written no manifest.
C7_FatalBeforeAnyWork ==
  (script = "images" /\ (~srcDirExists \/ ~capability)) =>
    /\ pc \in {"main", "probe", "exited"}
    /\ pc = "exited" => exitCode = 1
    /\ made = {} /\ attempts = << >> /\ writeLog = {}
    /\ files = EmptyFn /\ manifestWrites = 0

C7_Witness ==
  /\ script = "images" /\ srcDirExists /\ ~capability
  /\ pc = "exited" /\ dirEntries # << >>

\* the pairs of a listing in file order, then in the order
\* mobile, tablet, desktop, thumbnail
PresetOrder == << "mobile", "tablet", "desktop", "thumbnail" >>

PairsInOrder(list) ==
  [k \in 1..(Len(list) * Len(PresetOrder)) |->
     << list[((k - 1) \div Len(PresetOrder)) + 1],
        PresetOrder[((k - 1) % Len(PresetOrder)) + 1] >>]

IsPrefix(s, t) == Len(s) <= Len(t) /\ \A i \in DOMAIN s : s[i] = t[i]

\* C8: in the local image-optimizer the pairs are attempted once each, in
\* file-enumeration order then preset order, whatever the conversions
\* return; the manifest is written once, after the last pair; and the run
\* then ends with status 0.
C8_EveryPairOnceThenManifest ==
  (script = "images" /\ srcDirExists /\ capability) =>
    /\ IsPrefix(attempts, PairsInOrder(FilterImages(dirEntries)))
    /\ manifestWrites <= 1
    /\ manifestWrites = 1 => attempts = PairsInOrder(FilterImages(dirEntries))
    /\ pc = "exited" => (exitCode = 0 /\ manifestWrites = 1)

C8_Witness ==
  /\ ImagesFinished
  /\ Len(attempts) = 2 * Len(PresetOrder)
  /\ outcomes[1] = "failWebp" /\ outcomes[2] = "failJpeg" /\ outcomes[3] = "ok"

\* C9 (as stated): when the pipeline completes, for every enumerated image
\* and preset either both variants exist in dist/pages or an unmodified
\* copy of the original exists there under its original filename; without
\* the capability every image is copied and no variant is generated.
C9_EveryImageRepresented ==
  CloudflareCompleted =>
    IF capability
    THEN \A f \in Range(imageFiles) : \A c \in Range(configsCloudflare) :
           \/ TwoFiles("pages", f, c) \subseteq DOMAIN files
           \/ /\ [dir |-> "pages", name |-> f.name, ext |-> f.ext] \in DOMAIN files
              /\ files[[dir |-> "pages", name |-> f.name, ext |-> f.ext]] = Copy(f)
    ELSE /\ \A f \in Range(imageFiles) :
              /\ [dir |-> "pages", name |-> f.name, ext |-> f.ext] \in DOMAIN files
              /\ files[[dir |-> "pages", name |-> f.name, ext |-> f.ext]] = Copy(f)
         /\ writeLog = {}
         /\ \A p \in DOMAIN files : files[p].kind \notin {"webp", "jpeg"}

\* C10 (as stated): when a completed build has rewritten index.html to the
\* <picture> statement, the six files it references exist in dist/pages
\* for every enumerated source page.
C10_PictureFilesExist ==
  (CloudflareCompleted /\ "P" \in Range(files[IndexPath].bytes)) =>
    \A f \in Range(imageFiles) : \A i \in DOMAIN PictureSources :
      [dir |-> "pages", name |-> f.name \o PictureSources[i].suffix,
       ext |-> PictureSources[i].ext] \in DOMAIN files

====
